---- MODULE Spec2Model ----
(***************************************************************************)
(* Draft-pick ownership tracker (cyponthemic/dynasty).                     *)
(*                                                                         *)
(* The model covers                                                        *)
(*   - src/lib/tradeValidation.ts : rebuildOwnership,                      *)
(*     validateNoDuplicatePicks, isPickLockedByStepienRule,                *)
(*     validateStepienRule;                                                *)
(*   - netlify/functions/add-trade.ts and delete-trade.ts : the two        *)
(*     handlers that write the stored trade log, one request at a time     *)
(*     and several requests at once; get-state.ts, which reads it;         *)
(*   - components/TradeForm.tsx : handleSubmit, the client-side path that  *)
(*     validates a candidate trade before it posts it to add-trade, and    *)
(*     the lock indicator of a row;                                        *)
(*   - components/OwnershipTable.tsx : its own rebuildOwnership and the    *)
(*     cells rendered from it.                                             *)
(*                                                                         *)
(* Conventions.                                                            *)
(*   - A pick, a pick reference and a trade are records with the field     *)
(*     names of src/types/state.ts.  The optional notes of a trade are     *)
(*     read by no function modelled here and are left out.                 *)
(*   - The identity key `${year}-${round}-${originalOwnerId}` is modelled  *)
(*     as the triple <<year, round, originalOwnerId>>: for numeric year    *)
(*     and round the template string is injective on the triple.           *)
(*   - createdAt is the millisecond count that                             *)
(*     new Date(createdAt).getTime() yields for the ISO string stored by   *)
(*     add-trade.                                                          *)
(*   - An error message is modelled by the data interpolated into it.      *)
(*   - A call of a library function is applied to the state held in        *)
(*     basePicks and trades, and leaves in them what the function leaves   *)
(*     in the object it was given.                                         *)
(*   - The store is the blob's trades; writes counts the store.set calls.  *)
(***************************************************************************)
EXTENDS Integers, Sequences, FiniteSets, TLC

VARIABLES
    basePicks,  \* state.basePicks: the baseline (seed data set)
    trades,     \* state.trades: the trade log (the stored blob's trades)
    clock,      \* wall clock read by add-trade, in milliseconds
    nextId,     \* number of ids crypto.randomUUID() has handed out
    response,   \* the response of the last handler / callback of the form
    call,       \* the last call of a library function, with its result, or
                \* the last request a handler received
    writes,     \* number of store.set('state', ...) calls performed
    inflight    \* the requests being handled concurrently: what each has
                \* read and built so far, and its response once sent

vars ==
    <<basePicks, trades, clock, nextId, response, call, writes, inflight>>

------------------------------------------------------------------------------
(* Bounds of the model *)

\* number of draft years on record
NumYears == 3
\* rounds are 1..MaxRound
MaxRound == 2
\* longest trade log drawn as input of rebuildOwnership
MaxLog == 2
\* longest pick list of a trade of such a log
MaxLogRefs == 2
\* largest createdAt of such a log
MaxLogTime == 2
\* longest candidate pick list handed to the validators
MaxPicks == 3
\* longest pick list handed to validateNoDuplicatePicks
MaxDupPicks == 4
\* longest trade log drawn as the existing state of a validator call
MaxValLog == 2
\* longest stored trade log of the handlers
MaxTrades == 2
\* number of trade ids the handlers hand out
MaxIds == 2
\* the clock of the handlers runs 0..MaxClock
MaxClock == 1
\* longest pick list of a request to add-trade
MaxReqPicks == 2
\* most rows of the trade form
MaxRows == 2

\* number of requests the handlers serve concurrently
MaxRequests == 3

\* first year on record (the tests' baseline starts in 2026)
FirstYear == 2026

Years == FirstYear .. (FirstYear + NumYears - 1)
Rounds == 1 .. MaxRound

\* state.teams (ids only; the display name is read by no function modelled)
Teams == {"A", "B"}
\* an id that names no team, and the value of a field a request leaves out
Ghost == "ghost"
Undefined == "undefined"

PickRefs == [year : Years, round : Rounds, originalOwnerId : Teams]

\* all sequences over S of length lo..hi
SeqsOf(S, lo, hi) == UNION {[1 .. n -> S] : n \in lo .. hi}

------------------------------------------------------------------------------
(* src/types/state.ts *)

Pick(y, r, o, c) ==
    [year |-> y, round |-> r, originalOwnerId |-> o, currentOwnerId |-> c]

PickRef(y, r, o) == [year |-> y, round |-> r, originalOwnerId |-> o]

Trade(id, at, from, to, picks) ==
    [id |-> id, createdAt |-> at, fromTeamId |-> from, toTeamId |-> to,
     picks |-> picks]

State(bp, ts) == [teams |-> Teams, basePicks |-> bp, trades |-> ts]

\* a field an object carries (a JSON body leaves out what is undefined)
HasField(object, name) == name \in DOMAIN object

\* the template string `${year}-${round}-${originalOwnerId}`
Key(p) == <<p.year, p.round, p.originalOwnerId>>

------------------------------------------------------------------------------
(* Map<string, TeamId> *)

EmptyMap == [k \in {} |-> Undefined]

MapHas(m, k) == k \in DOMAIN m

\* Map.get: undefined for a key that was never set
MapGet(m, k) == IF k \in DOMAIN m THEN m[k] ELSE Undefined

MapSet(m, k, v) == [x \in (DOMAIN m) \cup {k} |-> IF x = k THEN v ELSE m[x]]

------------------------------------------------------------------------------
(* src/lib/tradeValidation.ts: rebuildOwnership *)

\* mutant of SeedOwnership: seeds the original owner, not the current one
RECURSIVE SeedOwnershipOriginal(_, _)
SeedOwnershipOriginal(picks, ownership) ==
    IF picks = <<>> THEN ownership
    ELSE SeedOwnershipOriginal(Tail(picks),
                               MapSet(ownership, Key(Head(picks)),
                                      Head(picks).originalOwnerId))

\* lines 12-15: seed the map from the baseline, in iteration order
RECURSIVE SeedOwnership(_, _)
SeedOwnership(picks, ownership) ==
    IF picks = <<>> THEN ownership
    ELSE SeedOwnership(Tail(picks),
                       MapSet(ownership, Key(Head(picks)),
                              Head(picks).currentOwnerId))

\* mutant of CompareCreatedAt: the operands are swapped (latest first)
CompareCreatedAtSwapped(a, b) == b.createdAt - a.createdAt

\* mutant of CompareCreatedAt: every two trades compare equal, so the sort
\* leaves the log in storage order
CompareCreatedAtNone(a, b) == 0

\* the comparator of line 18
CompareCreatedAt(a, b) == a.createdAt - b.createdAt

\* mutant of InsertTrade: an unstable sort, which puts an element before the
\* elements that compare equal to it
RECURSIVE InsertTradeBeforeEqual(_, _)
InsertTradeBeforeEqual(sorted, t) ==
    IF sorted = <<>> THEN <<t>>
    ELSE IF CompareCreatedAt(Head(sorted), t) < 0
         THEN <<Head(sorted)>> \o InsertTradeBeforeEqual(Tail(sorted), t)
         ELSE <<t>> \o sorted

\* Array.prototype.sort is stable: an element goes behind every element
\* that does not compare greater than it
RECURSIVE InsertTrade(_, _)
InsertTrade(sorted, t) ==
    IF sorted = <<>> THEN <<t>>
    ELSE IF CompareCreatedAt(Head(sorted), t) <= 0
         THEN <<Head(sorted)>> \o InsertTrade(Tail(sorted), t)
         ELSE <<t>> \o sorted

RECURSIVE SortTradesFrom(_, _)
SortTradesFrom(rest, sorted) ==
    IF rest = <<>> THEN sorted
    ELSE SortTradesFrom(Tail(rest), InsertTrade(sorted, Head(rest)))

\* lines 17-19: [...state.trades].sort(...)
SortedTrades(ts) == SortTradesFrom(ts, <<>>)

\* mutant of ApplyPickRef: moves the pick whoever owns it
ApplyPickRefUnchecked(ownership, trade, pickRef) ==
    IF MapHas(ownership, Key(pickRef))
    THEN MapSet(ownership, Key(pickRef), trade.toTeamId)
    ELSE ownership

\* mutant of ApplyPickRef: a key the map does not hold counts as owned by
\* fromTeamId, so the reference creates an entry
ApplyPickRefCreating(ownership, trade, pickRef) ==
    IF MapHas(ownership, Key(pickRef))
           => MapGet(ownership, Key(pickRef)) = trade.fromTeamId
    THEN MapSet(ownership, Key(pickRef), trade.toTeamId)
    ELSE ownership

\* lines 24-29: one pick reference of one trade
ApplyPickRef(ownership, trade, pickRef) ==
    IF MapHas(ownership, Key(pickRef))
    THEN IF MapGet(ownership, Key(pickRef)) = trade.fromTeamId
         THEN MapSet(ownership, Key(pickRef), trade.toTeamId)
         ELSE ownership
    ELSE ownership

\* lines 22-30: the pick references of one trade, in order
RECURSIVE ApplyPickRefs(_, _, _)
ApplyPickRefs(ownership, trade, refs) ==
    IF refs = <<>> THEN ownership
    ELSE ApplyPickRefs(ApplyPickRef(ownership, trade, Head(refs)), trade,
                       Tail(refs))

\* lines 21-31: the trades, in sorted order
RECURSIVE ReplayTrades(_, _)
ReplayTrades(ownership, sorted) ==
    IF sorted = <<>> THEN ownership
    ELSE ReplayTrades(ApplyPickRefs(ownership, Head(sorted), Head(sorted).picks),
                      Tail(sorted))

rebuildOwnership(state) ==
    ReplayTrades(SeedOwnership(state.basePicks, EmptyMap),
                 SortedTrades(state.trades))

\* mutant of TradesAfterRebuildOwnership: state.trades.sort(...) without the
\* copy, which reorders the caller's array
TradesSortedInPlace(state) == SortedTrades(state.trades)

\* state.trades once rebuildOwnership has returned.  Array.prototype.sort
\* reorders the array it is called on; line 17 calls it on the copy
\* [...state.trades], and no other line writes to the state.
TradesAfterRebuildOwnership(state) == state.trades

------------------------------------------------------------------------------
(* src/lib/tradeValidation.ts: ValidationResult *)

Ok == [ok |-> TRUE]

\* mutant of Fail: the rejection carries no error
FailSilently(error) == [ok |-> FALSE]

\* { ok: false, error: ... } (lines 42-45, 61-64, 151-154)
Fail(error) == [ok |-> FALSE, error |-> error]

------------------------------------------------------------------------------
(* src/lib/tradeValidation.ts: validateNoDuplicatePicks *)

\* line 53: `${year} Round ${round} (originally owned by ${originalOwnerId})`
DuplicateText(pick) == <<pick.year, pick.round, pick.originalOwnerId>>

\* mutant of SeenKey: the key leaves out the original owner
SeenYearAndRound(pickKeys, pick) ==
    \E k \in pickKeys : k[1] = pick.year /\ k[2] = pick.round

\* line 52: pickKeys.has(key)
SeenKey(pickKeys, pick) == Key(pick) \in pickKeys

\* mutant of ScanDuplicates: the scan stops at the first repeated pick
RECURSIVE ScanFirstDuplicate(_, _, _)
ScanFirstDuplicate(picks, pickKeys, duplicates) ==
    IF picks = <<>> THEN duplicates
    ELSE IF SeenKey(pickKeys, Head(picks))
         THEN Append(duplicates, DuplicateText(Head(picks)))
         ELSE ScanFirstDuplicate(Tail(picks), pickKeys \cup {Key(Head(picks))},
                                 duplicates)

\* lines 49-57: the scan that collects the repeated picks
RECURSIVE ScanDuplicates(_, _, _)
ScanDuplicates(picks, pickKeys, duplicates) ==
    IF picks = <<>> THEN duplicates
    ELSE IF SeenKey(pickKeys, Head(picks))
         THEN ScanDuplicates(Tail(picks), pickKeys,
                             Append(duplicates, DuplicateText(Head(picks))))
         ELSE ScanDuplicates(Tail(picks), pickKeys \cup {Key(Head(picks))},
                             duplicates)

\* mutant of validateNoDuplicatePicks: no test of the length, so an empty
\* list has no duplicates and passes
validateNoDuplicatePicksNoLength(picks) ==
    LET duplicates == ScanDuplicates(picks, {}, <<>>)
    IN  IF Len(duplicates) > 0
        THEN Fail([kind |-> "Duplicate picks found in trade",
                   duplicates |-> duplicates])
        ELSE Ok

validateNoDuplicatePicks(picks) ==
    IF Len(picks) = 0
    THEN Fail([kind |-> "Trade must contain at least one pick"])
    ELSE LET duplicates == ScanDuplicates(picks, {}, <<>>)
         IN  IF Len(duplicates) > 0
             THEN Fail([kind |-> "Duplicate picks found in trade",
                        duplicates |-> duplicates])
             ELSE Ok

------------------------------------------------------------------------------
(* src/lib/tradeValidation.ts: isPickLockedByStepienRule *)

\* mutant of PreviousYear: looks at the pick's own year
ThisYear(year) == year

\* line 88
PreviousYear(year) == year - 1

\* lines 92-94: state.basePicks.some(...)
PreviousYearPickExists(state, teamId, year) ==
    \E i \in DOMAIN state.basePicks :
        /\ state.basePicks[i].year = PreviousYear(year)
        /\ state.basePicks[i].round = 1
        /\ state.basePicks[i].originalOwnerId = teamId

\* mutant of isPickLockedByStepienRule: no test of the round
isPickLockedAnyRound(state, teamId, year, round) ==
    IF ~PreviousYearPickExists(state, teamId, year) THEN FALSE
    ELSE MapGet(rebuildOwnership(state), <<PreviousYear(year), 1, teamId>>)
             # teamId

isPickLockedByStepienRule(state, teamId, year, round) ==
    IF round # 1 THEN FALSE
    ELSE IF ~PreviousYearPickExists(state, teamId, year) THEN FALSE
    ELSE LET ownership == rebuildOwnership(state)
             previousYearOwner ==
                 MapGet(ownership, <<PreviousYear(year), 1, teamId>>)
         IN  previousYearOwner # teamId

\* state.trades once isPickLockedByStepienRule has returned: line 85 is
\* reached for round 1 only
TradesAfterIsPickLocked(state, round) ==
    IF round # 1 THEN state.trades ELSE TradesAfterRebuildOwnership(state)

------------------------------------------------------------------------------
(* src/lib/tradeValidation.ts: validateStepienRule *)

\* mutant of InStepienScope: every round-1 pick, whoever its original owner
InStepienScopeAnyOwner(pick, fromTeamId) == pick.round = 1

\* lines 121 and 126: the picks the rule applies to
InStepienScope(pick, fromTeamId) ==
    pick.round = 1 /\ pick.originalOwnerId = fromTeamId

\* line 132: `${year} Round ${round} (locked - previous year's pick not owned)`
LockedText(pick) ==
    [kind |-> "locked", year |-> pick.year, round |-> pick.round]

\* line 146: `Cannot trade consecutive 1st round picks: ${currentYear} and
\* ${nextYear} in the same trade`
ConsecutiveText(currentYear, nextYear) ==
    [kind |-> "consecutive", currentYear |-> currentYear,
     nextYear |-> nextYear]

\* lines 124-134: check 1, over all picks in order
RECURSIVE LockedViolations(_, _, _)
LockedViolations(state, fromTeamId, picks) ==
    IF picks = <<>> THEN <<>>
    ELSE LET pick == Head(picks)
             rest == LockedViolations(state, fromTeamId, Tail(picks))
         IN  IF ~InStepienScope(pick, fromTeamId) THEN rest
             ELSE IF isPickLockedByStepienRule(state, fromTeamId, pick.year,
                                               pick.round)
                  THEN <<LockedText(pick)>> \o rest
                  ELSE rest

\* line 121 and line 138: the years of the picks in scope, in list order
RECURSIVE FirstRoundYears(_, _)
FirstRoundYears(picks, fromTeamId) ==
    IF picks = <<>> THEN <<>>
    ELSE IF InStepienScope(Head(picks), fromTeamId)
         THEN <<Head(picks).year>> \o FirstRoundYears(Tail(picks), fromTeamId)
         ELSE FirstRoundYears(Tail(picks), fromTeamId)

RECURSIVE InsertYear(_, _)
InsertYear(sorted, y) ==
    IF sorted = <<>> THEN <<y>>
    ELSE IF Head(sorted) - y <= 0
         THEN <<Head(sorted)>> \o InsertYear(Tail(sorted), y)
         ELSE <<y>> \o sorted

RECURSIVE SortYearsFrom(_, _)
SortYearsFrom(rest, sorted) ==
    IF rest = <<>> THEN sorted
    ELSE SortYearsFrom(Tail(rest), InsertYear(sorted, Head(rest)))

\* line 139: .sort((a, b) => a - b)
SortYears(years) == SortYearsFrom(years, <<>>)

\* mutant of ConsecutiveViolations: check 2 finds nothing
ConsecutiveViolationsNone(sortedFirstRoundPicks, i) == <<>>

\* lines 141-148: check 2, over the adjacent pairs from index i on
RECURSIVE ConsecutiveViolations(_, _)
ConsecutiveViolations(sortedFirstRoundPicks, i) ==
    IF ~(i < Len(sortedFirstRoundPicks)) THEN <<>>
    ELSE LET currentYear == sortedFirstRoundPicks[i]
             nextYear == sortedFirstRoundPicks[i + 1]
             rest == ConsecutiveViolations(sortedFirstRoundPicks, i + 1)
         IN  IF nextYear = currentYear + 1
             THEN <<ConsecutiveText(currentYear, nextYear)>> \o rest
             ELSE rest

\* mutant of SortedFirstRoundPicks: the years are left in list order
UnsortedFirstRoundPicks(picks, fromTeamId) ==
    FirstRoundYears(picks, fromTeamId)

\* lines 137-139
SortedFirstRoundPicks(picks, fromTeamId) ==
    SortYears(FirstRoundYears(picks, fromTeamId))

\* mutant of validateStepienRule: returns the locked picks as soon as check
\* 1 has found any, without running check 2
validateStepienRuleFirstFailure(state, fromTeamId, picks) ==
    LET locked == LockedViolations(state, fromTeamId, picks)
        consecutive ==
            ConsecutiveViolations(SortedFirstRoundPicks(picks, fromTeamId), 1)
        violations == IF Len(locked) > 0 THEN locked ELSE consecutive
    IN  IF Len(violations) > 0
        THEN Fail([kind |-> "Stepien rule violation",
                   violations |-> violations])
        ELSE Ok

validateStepienRule(state, fromTeamId, picks) ==
    LET violations ==
            LockedViolations(state, fromTeamId, picks)
            \o ConsecutiveViolations(SortedFirstRoundPicks(picks, fromTeamId), 1)
    IN  IF Len(violations) > 0
        THEN Fail([kind |-> "Stepien rule violation",
                   violations |-> violations])
        ELSE Ok

\* state.trades once validateStepienRule has returned: line 131 is reached
\* for the picks the rule applies to
TradesAfterValidateStepienRule(state, fromTeamId, picks) ==
    IF \E i \in DOMAIN picks : InStepienScope(picks[i], fromTeamId)
    THEN TradesAfterIsPickLocked(state, 1)
    ELSE state.trades

------------------------------------------------------------------------------
(* Baselines: the seed data set (src/data/initialState.json) is drawn from  *)
(* three shapes.  Identity keys are unique in each of them.                 *)

\* all round-1 picks of year y, each owned by its original owner
RoundOneOf(y) == <<Pick(y, 1, "A", "A"), Pick(y, 1, "B", "B")>>

RECURSIVE RoundOneFrom(_)
RoundOneFrom(y) ==
    IF y >= FirstYear + NumYears THEN <<>>
    ELSE RoundOneOf(y) \o RoundOneFrom(y + 1)

\* every team owns its own round-1 picks, and A its first round-2 pick
BaseOwn == RoundOneFrom(FirstYear) \o <<Pick(FirstYear, 2, "A", "A")>>

\* as BaseOwn, but A's first round-1 pick went to B before the baseline
BaseTraded ==
    [i \in DOMAIN BaseOwn |->
        IF Key(BaseOwn[i]) = <<FirstYear, 1, "A">>
        THEN Pick(FirstYear, 1, "A", "B") ELSE BaseOwn[i]]

\* as BaseOwn, but A has no round-1 pick in the second year
BaseGap == SelectSeq(BaseOwn, LAMBDA p : Key(p) # <<FirstYear + 1, 1, "A">>)

Baselines == {BaseOwn, BaseTraded, BaseGap}

BaseKeys(bp) == {Key(bp[i]) : i \in DOMAIN bp}

NoCall == [fn |-> "none"]

\* the requests handled concurrently, and none of them received yet
Requests == 1 .. MaxRequests
NoRequests == [r \in Requests |-> [pc |-> "idle"]]
NoResponse == [status |-> 0]

------------------------------------------------------------------------------
(* Specification SpecOwn: rebuildOwnership applied to drawn states *)

\* pick references of the drawn logs: A's first two round-1 picks and B's
\* first one
LogRefs ==
    {r \in PickRefs :
        /\ r.round = 1
        /\ \/ r.originalOwnerId = "A" /\ r.year <= FirstYear + 1
           \/ r.originalOwnerId = "B" /\ r.year = FirstYear}

LogTradeShapes ==
    [createdAt : 1 .. MaxLogTime, fromTeamId : Teams, toTeamId : Teams,
     picks : SeqsOf(LogRefs, 1, MaxLogRefs)]

\* a log of the given shapes; ids are the positions
LogOf(shapes) ==
    [i \in DOMAIN shapes |->
        Trade(i, shapes[i].createdAt, shapes[i].fromTeamId,
              shapes[i].toTeamId, shapes[i].picks)]

OwnLogs == {LogOf(sh) : sh \in SeqsOf(LogTradeShapes, 0, MaxLog)}

InitOwn ==
    /\ basePicks \in Baselines
    /\ trades \in OwnLogs
    /\ clock = 0
    /\ nextId = 0
    /\ response = NoResponse
    /\ call = NoCall
    /\ writes = 0
    /\ inflight = NoRequests

CallRebuildOwnership ==
    /\ call = NoCall
    /\ call' = [fn |-> "rebuildOwnership",
                result |-> rebuildOwnership(State(basePicks, trades))]
    /\ trades' = TradesAfterRebuildOwnership(State(basePicks, trades))
    /\ UNCHANGED <<basePicks, clock, nextId, response, writes, inflight>>

\* a second call on the state the first call left
CallRebuildOwnershipAgain ==
    /\ call.fn = "rebuildOwnership"
    /\ ~HasField(call, "first")
    /\ call' = [fn |-> "rebuildOwnership", first |-> call.result,
                result |-> rebuildOwnership(State(basePicks, trades))]
    /\ trades' = TradesAfterRebuildOwnership(State(basePicks, trades))
    /\ UNCHANGED <<basePicks, clock, nextId, response, writes, inflight>>

\* components/OwnershipTable.tsx has a rebuildOwnership of its own (lines
\* 9-38), which the table renders the owners from (line 41).

\* OwnershipTable.tsx lines 13-16: the map after the first n baseline picks
RECURSIVE TableSeed(_, _)
TableSeed(state, n) ==
    IF n = 0 THEN EmptyMap
    ELSE LET pick == state.basePicks[n]
         IN  MapSet(TableSeed(state, n - 1), Key(pick), pick.currentOwnerId)

\* OwnershipTable.tsx lines 19-21: the copy of state.trades after the stable
\* sort by createdAt; the trade of the first n that goes to place p
RECURSIVE TableSortedTrades(_)
TableSortedTrades(ts) ==
    IF ts = <<>> THEN <<>>
    ELSE LET front == TableSortedTrades(SubSeq(ts, 1, Len(ts) - 1))
             last == ts[Len(ts)]
             before == SelectSeq(front, LAMBDA t :
                           t.createdAt - last.createdAt <= 0)
             after == SelectSeq(front, LAMBDA t :
                          t.createdAt - last.createdAt > 0)
         IN  before \o <<last>> \o after

\* mutant of TableTransfer: the pick moves whoever owns it
TableTransferUnchecked(ownership, trade, pickRef) ==
    IF MapHas(ownership, Key(pickRef))
    THEN MapSet(ownership, Key(pickRef), trade.toTeamId)
    ELSE ownership

\* OwnershipTable.tsx lines 25-33: one pick reference of one trade
TableTransfer(ownership, trade, pickRef) ==
    IF ~MapHas(ownership, Key(pickRef)) THEN ownership
    ELSE LET currentOwner == MapGet(ownership, Key(pickRef))
         IN  IF currentOwner = trade.fromTeamId
             THEN MapSet(ownership, Key(pickRef), trade.toTeamId)
             ELSE ownership

\* OwnershipTable.tsx lines 24-34: the first n pick references of a trade
RECURSIVE TableTransfers(_, _, _)
TableTransfers(ownership, trade, n) ==
    IF n = 0 THEN ownership
    ELSE TableTransfer(TableTransfers(ownership, trade, n - 1), trade,
                       trade.picks[n])

\* OwnershipTable.tsx lines 23-35: the first n trades of the sorted copy
RECURSIVE TableReplay(_, _, _)
TableReplay(ownership, sortedTrades, n) ==
    IF n = 0 THEN ownership
    ELSE LET trade == sortedTrades[n]
         IN  TableTransfers(TableReplay(ownership, sortedTrades, n - 1),
                            trade, Len(trade.picks))

\* OwnershipTable.tsx lines 9-38
TableRebuildOwnership(state) ==
    LET ownership == TableSeed(state, Len(state.basePicks))
        sortedTrades == TableSortedTrades(state.trades)
    IN  TableReplay(ownership, sortedTrades, Len(sortedTrades))

\* OwnershipTable.tsx lines 164-168: what a cell shows of a baseline pick
TableCell(state, ownership, pick) ==
    LET currentOwner == MapGet(ownership, Key(pick))
    IN  [currentOwner |-> currentOwner,
         isOriginal |-> currentOwner = pick.originalOwnerId,
         isLocked |-> isPickLockedByStepienRule(state, pick.originalOwnerId,
                                                pick.year, pick.round)]

\* OwnershipTable.tsx lines 40-41 and 160-168: one rendering of the table
RenderOwnershipTable ==
    /\ call = NoCall
    /\ LET state == State(basePicks, trades)
           ownership == TableRebuildOwnership(state)
       IN  call' = [fn |-> "OwnershipTable", ownership |-> ownership,
                    cells |-> [i \in DOMAIN basePicks |->
                                  TableCell(state, ownership, basePicks[i])]]
    /\ UNCHANGED <<basePicks, trades, clock, nextId, response, writes, inflight>>

NextOwn ==
    \/ CallRebuildOwnership
    \/ CallRebuildOwnershipAgain
    \/ RenderOwnershipTable

SpecOwn == InitOwn /\ [][NextOwn]_vars

------------------------------------------------------------------------------
(* Reference replay, stated per identity key and without a sort *)

\* position of trade i of the log in ascending createdAt order, equal
\* createdAt in log order
RefRank(ts, i) ==
    1 + Cardinality({j \in DOMAIN ts :
                        \/ ts[j].createdAt < ts[i].createdAt
                        \/ ts[j].createdAt = ts[i].createdAt /\ j < i})

\* the n-th trade in that order
RefNth(ts, n) == ts[CHOOSE i \in DOMAIN ts : RefRank(ts, i) = n]

TradeNames(t, k) == \E i \in DOMAIN t.picks : Key(t.picks[i]) = k

\* the baseline's owner of key k
BaselineOwner(bp, k) == bp[CHOOSE i \in DOMAIN bp : Key(bp[i]) = k].currentOwnerId

\* owner of baseline key k after the first n trades in that order
RECURSIVE RefOwnerAfter(_, _, _)
RefOwnerAfter(state, k, n) ==
    IF n = 0 THEN BaselineOwner(state.basePicks, k)
    ELSE LET before == RefOwnerAfter(state, k, n - 1)
             t == RefNth(state.trades, n)
         IN  IF TradeNames(t, k) /\ before = t.fromTeamId
             THEN t.toTeamId ELSE before

RefOwner(state, k) == RefOwnerAfter(state, k, Len(state.trades))

Rebuilt == call.fn = "rebuildOwnership"

\* C1: the mapping rebuildOwnership returns has the baseline's keys and gives
\* each key the owner of the reference replay: baseline owner first, then the
\* trades in ascending createdAt order, a reference moving the pick to
\* toTeamId exactly when its owner at that moment is fromTeamId.
C1_RebuildOwnershipIsReferenceReplay ==
    Rebuilt =>
        /\ DOMAIN call.result = BaseKeys(basePicks)
        /\ \A k \in BaseKeys(basePicks) :
               call.result[k] = RefOwner(State(basePicks, trades), k)

\* C1 witness: the log is stored out of createdAt order, the earlier trade
\* names a baseline pick its fromTeamId does not own (skipped), and the later
\* trade still moves a pick.
C1_Witness ==
    /\ Rebuilt
    /\ Len(trades) = 2
    /\ trades[1].createdAt > trades[2].createdAt
    /\ \E k \in BaseKeys(basePicks) :
           /\ TradeNames(trades[2], k)
           /\ BaselineOwner(basePicks, k) # trades[2].fromTeamId
           /\ RefOwnerAfter(State(basePicks, trades), k, 1)
                  = BaselineOwner(basePicks, k)
    /\ \E k \in BaseKeys(basePicks) :
           /\ TradeNames(trades[1], k)
           /\ call.result[k] = trades[1].toTeamId
           /\ call.result[k] # RefOwnerAfter(State(basePicks, trades), k, 1)

------------------------------------------------------------------------------
(* Specification SpecVal: the validators applied to drawn states and picks *)

\* pick references of the candidate lists: A's round-1 picks of every year,
\* A's first two round-2 picks and B's round-1 pick of the second year
CandRefs ==
    {r \in PickRefs :
        \/ r.originalOwnerId = "A" /\ r.round = 1
        \/ r.originalOwnerId = "A" /\ r.round = 2 /\ r.year <= FirstYear + 1
        \/ r.originalOwnerId = "B" /\ r.round = 1 /\ r.year = FirstYear + 1}

CandPicks == SeqsOf(CandRefs, 0, MaxPicks)

\* pick references of the lists handed to validateNoDuplicatePicks: they
\* differ from one another in the year, in the round or in the original owner
DupRefs ==
    {r \in CandRefs :
        \/ r.round = 1 /\ r.year <= FirstYear + 1
        \/ r.round = 2 /\ r.year = FirstYear + 1}

DupPicks == SeqsOf(DupRefs, 0, MaxDupPicks)

\* the existing logs: A's first two round-1 picks pass between A and B, one
\* pick a trade, stored in createdAt order or in the reverse of it
ValTradeShapes ==
    {sh \in [fromTeamId : Teams, toTeamId : Teams,
             picks : SeqsOf({r \in LogRefs : r.originalOwnerId = "A"}, 1, 1)] :
        sh.fromTeamId # sh.toTeamId}

ValStamps(n) == {[i \in 1 .. n |-> i], [i \in 1 .. n |-> n + 1 - i]}

ValLogs ==
    UNION {{[i \in DOMAIN sh |->
                Trade(i, at[i], sh[i].fromTeamId, sh[i].toTeamId,
                      sh[i].picks)] :
              at \in ValStamps(Len(sh))} :
           sh \in SeqsOf(ValTradeShapes, 0, MaxValLog)}

InitVal ==
    /\ basePicks \in Baselines
    /\ trades \in ValLogs
    /\ clock = 0
    /\ nextId = 0
    /\ response = NoResponse
    /\ call = NoCall
    /\ writes = 0
    /\ inflight = NoRequests

CallValidateNoDuplicatePicks(picks) ==
    /\ call = NoCall
    /\ call' = [fn |-> "validateNoDuplicatePicks", picks |-> picks,
                result |-> validateNoDuplicatePicks(picks)]
    /\ UNCHANGED <<basePicks, trades, clock, nextId, response, writes, inflight>>

CallIsPickLockedByStepienRule(teamId, year, round) ==
    /\ call = NoCall
    /\ call' = [fn |-> "isPickLockedByStepienRule", teamId |-> teamId,
                year |-> year, round |-> round,
                result |-> isPickLockedByStepienRule(
                               State(basePicks, trades), teamId, year, round)]
    /\ trades' = TradesAfterIsPickLocked(State(basePicks, trades), round)
    /\ UNCHANGED <<basePicks, clock, nextId, response, writes, inflight>>

CallValidateStepienRule(fromTeamId, picks) ==
    /\ call = NoCall
    /\ call' = [fn |-> "validateStepienRule", fromTeamId |-> fromTeamId,
                picks |-> picks,
                result |-> validateStepienRule(State(basePicks, trades),
                                               fromTeamId, picks)]
    /\ trades' = TradesAfterValidateStepienRule(State(basePicks, trades),
                                                fromTeamId, picks)
    /\ UNCHANGED <<basePicks, clock, nextId, response, writes, inflight>>

\* a second call of the same function with the same arguments, on the state
\* the first call left
CallStepienAgain ==
    /\ call.fn \in {"isPickLockedByStepienRule", "validateStepienRule"}
    /\ ~HasField(call, "first")
    /\ LET state == State(basePicks, trades)
       IN  IF call.fn = "isPickLockedByStepienRule"
           THEN /\ call' = [fn |-> call.fn, teamId |-> call.teamId,
                            year |-> call.year, round |-> call.round,
                            first |-> call.result,
                            result |-> isPickLockedByStepienRule(
                                           state, call.teamId, call.year,
                                           call.round)]
                /\ trades' = TradesAfterIsPickLocked(state, call.round)
           ELSE /\ call' = [fn |-> call.fn, fromTeamId |-> call.fromTeamId,
                            picks |-> call.picks, first |-> call.result,
                            result |-> validateStepienRule(
                                           state, call.fromTeamId, call.picks)]
                /\ trades' = TradesAfterValidateStepienRule(
                                  state, call.fromTeamId, call.picks)
    /\ UNCHANGED <<basePicks, clock, nextId, response, writes, inflight>>

NextVal ==
    \/ \E picks \in DupPicks : CallValidateNoDuplicatePicks(picks)
    \/ \E teamId \in Teams, year \in FirstYear .. (FirstYear + NumYears),
          round \in Rounds :
           CallIsPickLockedByStepienRule(teamId, year, round)
    \/ \E fromTeamId \in Teams, picks \in CandPicks :
           CallValidateStepienRule(fromTeamId, picks)
    \/ CallStepienAgain
    \/ CallRebuildOwnership
    \/ CallRebuildOwnershipAgain

SpecVal == InitVal /\ [][NextVal]_vars

------------------------------------------------------------------------------
(* Claims about the validators (SpecVal) *)

Called(fn) == call.fn = fn

\* the lock of team T's own round-1 pick of year Y, from the reference replay
RefLocked(state, T, Y) ==
    /\ <<Y - 1, 1, T>> \in BaseKeys(state.basePicks)
    /\ RefOwner(state, <<Y - 1, 1, T>>) # T

\* C2: isPickLockedByStepienRule(state, T, Y, round) is true exactly when
\* round is 1, the baseline holds T's own round-1 pick of year Y-1 and the
\* derived ownership gives that pick to another team than T.
C2_LockedIffPreviousYearPickLost ==
    Called("isPickLockedByStepienRule") =>
        (call.result = TRUE <=>
            /\ call.round = 1
            /\ RefLocked(State(basePicks, trades), call.teamId, call.year))

\* C2 witness: a round-1 pick locked because a trade of the log moved the
\* previous year's pick away from its baseline owner T.
C2_Witness ==
    /\ Called("isPickLockedByStepienRule")
    /\ call.result = TRUE
    /\ <<call.year - 1, 1, call.teamId>> \in BaseKeys(basePicks)
    /\ BaselineOwner(basePicks, <<call.year - 1, 1, call.teamId>>) = call.teamId

\* the positions of the candidate picks the Stepien rule applies to
ScopePositions(picks, T) ==
    {i \in DOMAIN picks : picks[i].round = 1 /\ picks[i].originalOwnerId = T}

SomeLocked(state, T, picks) ==
    \E i \in ScopePositions(picks, T) : RefLocked(state, T, picks[i].year)

InSeq(x, seq) == \E j \in DOMAIN seq : seq[j] = x

\* C3: a candidate list holding a locked round-1 pick of fromTeamId is
\* rejected, and the error names the year and the round of every such pick.
C3_LockedPickRejectedAndNamed ==
    Called("validateStepienRule") =>
        \A i \in ScopePositions(call.picks, call.fromTeamId) :
            RefLocked(State(basePicks, trades), call.fromTeamId,
                      call.picks[i].year)
            => /\ call.result.ok = FALSE
               /\ InSeq([kind |-> "locked", year |-> call.picks[i].year,
                         round |-> 1],
                        call.result.error.violations)

\* C3 witness: the candidate holds a locked pick next to a pick that is not
\* locked, and is rejected.
C3_Witness ==
    /\ Called("validateStepienRule")
    /\ call.result.ok = FALSE
    /\ \E i, j \in ScopePositions(call.picks, call.fromTeamId) :
           /\ RefLocked(State(basePicks, trades), call.fromTeamId,
                        call.picks[i].year)
           /\ ~RefLocked(State(basePicks, trades), call.fromTeamId,
                         call.picks[j].year)

\* pairs of years, one apart, among the picks the rule applies to
ConsecutivePairs(picks, T) ==
    {<<picks[i].year, picks[j].year>> :
        <<i, j>> \in {q \in ScopePositions(picks, T) \X ScopePositions(picks, T) :
                         picks[q[2]].year = picks[q[1]].year + 1}}

\* C4: when no candidate pick is locked, the list is rejected exactly when
\* two round-1 picks of fromTeamId are one year apart, and the error names
\* both years of every such pair.
C4_ConsecutivePairRejectedIff ==
    (Called("validateStepienRule")
        /\ ~SomeLocked(State(basePicks, trades), call.fromTeamId, call.picks))
    => /\ call.result.ok = FALSE
            <=> ConsecutivePairs(call.picks, call.fromTeamId) # {}
       /\ \A pair \in ConsecutivePairs(call.picks, call.fromTeamId) :
              InSeq([kind |-> "consecutive", currentYear |-> pair[1],
                     nextYear |-> pair[2]],
                    call.result.error.violations)

\* C4 witness: no pick locked, the later year listed before the earlier one
\* and the earlier one listed twice; rejected.
C4_Witness ==
    /\ Called("validateStepienRule")
    /\ ~SomeLocked(State(basePicks, trades), call.fromTeamId, call.picks)
    /\ call.result.ok = FALSE
    /\ Len(call.picks) = 3
    /\ ScopePositions(call.picks, call.fromTeamId) = {1, 2, 3}
    /\ call.picks[1].year = call.picks[2].year + 1
    /\ call.picks[3].year = call.picks[2].year

SamePick(p, q) ==
    p.year = q.year /\ p.round = q.round
        /\ p.originalOwnerId = q.originalOwnerId

Permuted(picks, f) == [i \in DOMAIN picks |-> picks[f[i]]]

\* C5: a non-empty list is rejected exactly when two entries share year,
\* round and originalOwnerId, and every reordering of the list gets the same
\* verdict.
C5_DuplicateIffSameKey ==
    (Called("validateNoDuplicatePicks") /\ Len(call.picks) > 0)
    => /\ call.result.ok = FALSE
            <=> \E i, j \in DOMAIN call.picks :
                    i < j /\ SamePick(call.picks[i], call.picks[j])
       /\ \A f \in Permutations(DOMAIN call.picks) :
              validateNoDuplicatePicks(Permuted(call.picks, f)).ok
                  = call.result.ok

\* C5 witness: an entry repeated at a distance, with an entry of the same
\* year and round but another original owner in between; rejected.
C5_Witness ==
    /\ Called("validateNoDuplicatePicks")
    /\ Len(call.picks) = 3
    /\ SamePick(call.picks[1], call.picks[3])
    /\ call.picks[2].year = call.picks[1].year
    /\ call.picks[2].round = call.picks[1].round
    /\ call.picks[2].originalOwnerId # call.picks[1].originalOwnerId
    /\ call.result.ok = FALSE

------------------------------------------------------------------------------
(* netlify/functions/add-trade.ts and delete-trade.ts *)

\* mutant of NewTrade: the two team ids of the request change places
NewTradeSwappedTeams(body, picks, now) ==
    Trade(nextId + 1, now, body.toTeamId, body.fromTeamId, picks)

\* mutant of NewTrade: every trade gets the same id
NewTradeFixedId(body, picks, now) ==
    Trade(1, now, body.fromTeamId, body.toTeamId, picks)

\* lines 42-49: crypto.randomUUID() is modelled by a counter (ids are fresh),
\* new Date() by a reading now >= clock of a clock that never runs backwards
NewTrade(body, picks, now) ==
    Trade(nextId + 1, now, body.fromTeamId, body.toTeamId, picks)

\* mutant of AddTradeHandler: the picks are not validated; every request is
\* appended and acknowledged
AddTradeHandlerUnvalidated(body) ==
    LET picks == IF HasField(body, "picks") THEN body.picks ELSE <<>>
    IN  /\ Len(trades) < MaxTrades
        /\ nextId < MaxIds
        /\ \E now \in clock .. MaxClock :
               LET newTrade == NewTrade(body, picks, now)
               IN  /\ trades' = Append(trades, newTrade)
                   /\ clock' = now
                   /\ response' = [fn |-> "add-trade", status |-> 200,
                                   ok |-> TRUE, trade |-> newTrade]
        /\ nextId' = nextId + 1
        /\ writes' = writes + 1

\* add-trade.ts lines 16-73 for one POST request.  store.get('state') of an
\* empty store yields the blob { trades: [] } (lines 19-29).
AddTradeHandler(body) ==
    LET blob == [trades |-> trades]
        picks == IF HasField(body, "picks") THEN body.picks ELSE <<>>
        duplicateValidation == validateNoDuplicatePicks(picks)
    IN  IF ~duplicateValidation.ok
        THEN /\ response' = [fn |-> "add-trade", status |-> 400,
                             error |-> duplicateValidation.error]
             /\ UNCHANGED <<trades, clock, nextId, writes>>
        ELSE /\ Len(trades) < MaxTrades
             /\ nextId < MaxIds
             /\ \E now \in clock .. MaxClock :
                    LET newTrade == NewTrade(body, picks, now)
                        nextBlob == [trades |-> Append(blob.trades, newTrade)]
                    IN  /\ trades' = nextBlob.trades
                        /\ clock' = now
                        /\ response' = [fn |-> "add-trade", status |-> 200,
                                        ok |-> TRUE, trade |-> newTrade]
             /\ nextId' = nextId + 1
             /\ writes' = writes + 1

\* one request to add-trade; the call records the body and the trades of the
\* blob line 16 read
AddTrade(body) ==
    /\ AddTradeHandler(body)
    /\ call' = [fn |-> "add-trade", body |-> body, read |-> trades]
    /\ UNCHANGED <<basePicks, inflight>>

\* mutant of DeleteTrade: no lookup of the trade; the filtered list is
\* written and the deletion acknowledged whether the id was in the log or not
DeleteTradeNoLookup(body) ==
    /\ IF ~HasField(body, "tradeId")
       THEN /\ response' = [fn |-> "delete-trade", status |-> 400,
                            error |-> "tradeId is required"]
            /\ UNCHANGED <<trades, writes>>
       ELSE /\ trades' = SelectSeq(trades, LAMBDA t : t.id # body.tradeId)
            /\ writes' = writes + 1
            /\ response' = [fn |-> "delete-trade", status |-> 200,
                            ok |-> TRUE, deletedTradeId |-> body.tradeId]
    /\ call' = [fn |-> "delete-trade", body |-> body]
    /\ UNCHANGED <<basePicks, clock, nextId, inflight>>

\* delete-trade.ts lines 12-59 for one request
DeleteTrade(body) ==
    /\ IF ~HasField(body, "tradeId")
       THEN /\ response' = [fn |-> "delete-trade", status |-> 400,
                            error |-> "tradeId is required"]
            /\ UNCHANGED <<trades, writes>>
       ELSE LET tradeId == body.tradeId
                blob == [trades |-> trades]
                found == \E i \in DOMAIN blob.trades :
                             blob.trades[i].id = tradeId
            IN  IF ~found
                THEN /\ response' = [fn |-> "delete-trade", status |-> 404,
                                     error |-> "Trade not found"]
                     /\ UNCHANGED <<trades, writes>>
                ELSE /\ trades' = SelectSeq(blob.trades,
                                            LAMBDA t : t.id # tradeId)
                     /\ writes' = writes + 1
                     /\ response' = [fn |-> "delete-trade", status |-> 200,
                                     ok |-> TRUE, deletedTradeId |-> tradeId]
    /\ call' = [fn |-> "delete-trade", body |-> body]
    /\ UNCHANGED <<basePicks, clock, nextId, inflight>>

\* get-state.ts lines 12-22: store.get('state') is null while nothing was
\* stored, the blob { trades } afterwards.  null is the object without fields.
StoredBlob == IF writes = 0 THEN <<>> ELSE [trades |-> trades]

\* mutant of GetStateBody: the basePicks returned carry the owners derived
\* from the stored log
GetStateBodyDerived(blob) ==
    LET ts == IF HasField(blob, "trades") THEN blob.trades ELSE <<>>
        ownership == rebuildOwnership(State(basePicks, ts))
    IN  [teams |-> Teams,
         basePicks |-> [i \in DOMAIN basePicks |->
                           [basePicks[i] EXCEPT !.currentOwnerId =
                               MapGet(ownership, Key(basePicks[i]))]],
         trades |-> ts]

\* get-state.ts lines 24-32: trades = blob?.trades ?? [], teams and
\* basePicks come from the seed dataset initialState
GetStateBody(blob) ==
    LET ts == IF HasField(blob, "trades") THEN blob.trades ELSE <<>>
    IN  [teams |-> Teams, basePicks |-> basePicks, trades |-> ts]

\* get-state.ts lines 7-37 for one request
GetState ==
    /\ response' = [fn |-> "get-state", status |-> 200,
                    state |-> GetStateBody(StoredBlob)]
    /\ call' = [fn |-> "get-state"]
    /\ UNCHANGED <<basePicks, trades, clock, nextId, writes, inflight>>

\* pick references of the requests
ReqRefs == {r \in LogRefs : r.originalOwnerId = "A"}

\* request bodies of add-trade: toTeamId may name no team, picks may be
\* left out
AddBodies ==
    [fromTeamId : Teams, toTeamId : Teams \cup {Ghost},
     picks : SeqsOf(ReqRefs, 0, MaxReqPicks)]
    \cup [fromTeamId : Teams, toTeamId : Teams \cup {Ghost}]

\* request bodies of delete-trade: tradeId may be left out
DeleteBodies == [tradeId : 1 .. MaxIds] \cup {<<>>}

InitSys ==
    /\ basePicks \in Baselines
    /\ trades = <<>>
    /\ clock = 0
    /\ nextId = 0
    /\ response = NoResponse
    /\ call = NoCall
    /\ writes = 0
    /\ inflight = NoRequests

Next ==
    \/ \E body \in AddBodies : AddTrade(body)
    \/ \E body \in DeleteBodies : DeleteTrade(body)
    \/ GetState

Spec == InitSys /\ [][Next]_vars

------------------------------------------------------------------------------
(* Specification SpecConc: add-trade and delete-trade serving several       *)
(* requests at once.  A handler runs from one await to the next without     *)
(* interruption; store.get (add-trade.ts line 16, delete-trade.ts line 22)  *)
(* and store.set (line 64, line 50) are the points where requests           *)
(* interleave.  The store holds no lock and has no conditional write.       *)

\* request bodies of the concurrent requests
ConcAddBodies ==
    {[fromTeamId |-> "A", toTeamId |-> "B",
      picks |-> <<PickRef(FirstYear, 1, "A")>>],
     [fromTeamId |-> "B", toTeamId |-> "A",
      picks |-> <<PickRef(FirstYear, 1, "A")>>],
     [fromTeamId |-> "A", toTeamId |-> "B"]}

ConcDeleteBodies == [tradeId : 1 .. MaxIds] \cup {<<>>}

\* requests are received in the order of their numbers
Receivable(r) ==
    /\ inflight[r].pc = "idle"
    /\ \A q \in Requests : q < r => inflight[q].pc # "idle"

\* the request has sent its response
Done(request, resp) ==
    [request EXCEPT !.pc = "done"] @@ [response |-> resp]

\* mutant of NextBlobOfAdd: the new trade is put in front of the trades read
NextBlobOfAddInFront(blob, newTrade) ==
    [trades |-> <<newTrade>> \o blob.trades]

\* add-trade.ts lines 60-62
NextBlobOfAdd(blob, newTrade) == [trades |-> Append(blob.trades, newTrade)]

\* delete-trade.ts lines 46-48
NextBlobOfDelete(blob, tradeId) ==
    [trades |-> SelectSeq(blob.trades, LAMBDA t : t.id # tradeId)]

\* add-trade.ts lines 14-29: the body is parsed and the store read
AddTradeRead(r, body) ==
    /\ Receivable(r)
    /\ inflight' = [inflight EXCEPT ![r] =
                       [pc |-> "read", fn |-> "add-trade", body |-> body,
                        blob |-> [trades |-> trades]]]
    /\ UNCHANGED <<basePicks, trades, clock, nextId, response, call, writes>>

\* add-trade.ts lines 31-49: the picks are validated and, when they pass,
\* the trade is built with a fresh id and the time of this moment
AddTradeStamp(r) ==
    /\ inflight[r].pc = "read"
    /\ inflight[r].fn = "add-trade"
    /\ LET body == inflight[r].body
           picks == IF HasField(body, "picks") THEN body.picks ELSE <<>>
           duplicateValidation == validateNoDuplicatePicks(picks)
       IN  IF ~duplicateValidation.ok
           THEN LET resp == [fn |-> "add-trade", status |-> 400,
                             error |-> duplicateValidation.error]
                IN  /\ inflight' = [inflight EXCEPT ![r] = Done(@, resp)]
                    /\ response' = resp
                    /\ UNCHANGED <<clock, nextId>>
           ELSE /\ \E now \in clock .. MaxClock :
                       /\ inflight' =
                              [inflight EXCEPT ![r] =
                                  [@ EXCEPT !.pc = "stamped"] @@
                                  [newTrade |-> NewTrade(body, picks, now)]]
                       /\ clock' = now
                /\ nextId' = nextId + 1
                /\ UNCHANGED response
    /\ UNCHANGED <<basePicks, trades, call, writes>>

\* add-trade.ts lines 60-73: the trades read, with the new trade behind
\* them, are written and the trade is acknowledged
AddTradeWrite(r) ==
    /\ inflight[r].pc = "stamped"
    /\ LET nextBlob == NextBlobOfAdd(inflight[r].blob, inflight[r].newTrade)
           resp == [fn |-> "add-trade", status |-> 200, ok |-> TRUE,
                    trade |-> inflight[r].newTrade]
       IN  /\ trades' = nextBlob.trades
           /\ writes' = writes + 1
           /\ inflight' = [inflight EXCEPT ![r] = Done(@, resp)]
           /\ response' = resp
    /\ UNCHANGED <<basePicks, clock, nextId, call>>

\* delete-trade.ts lines 12-35: the body is parsed; without a tradeId the
\* request is answered, with one the store is read
DeleteTradeRead(r, body) ==
    /\ Receivable(r)
    /\ IF ~HasField(body, "tradeId")
       THEN LET resp == [fn |-> "delete-trade", status |-> 400,
                         error |-> "tradeId is required"]
            IN  /\ inflight' = [inflight EXCEPT ![r] =
                                   [pc |-> "done", fn |-> "delete-trade",
                                    body |-> body, response |-> resp]]
                /\ response' = resp
       ELSE /\ inflight' = [inflight EXCEPT ![r] =
                               [pc |-> "read", fn |-> "delete-trade",
                                body |-> body, blob |-> [trades |-> trades]]]
            /\ UNCHANGED response
    /\ UNCHANGED <<basePicks, trades, clock, nextId, call, writes>>

\* delete-trade.ts lines 37-59: the trade is looked up in the trades read;
\* when it is there the trades read without it are written
DeleteTradeWrite(r) ==
    /\ inflight[r].pc = "read"
    /\ inflight[r].fn = "delete-trade"
    /\ LET tradeId == inflight[r].body.tradeId
           blob == inflight[r].blob
           found == \E i \in DOMAIN blob.trades : blob.trades[i].id = tradeId
       IN  IF ~found
           THEN LET resp == [fn |-> "delete-trade", status |-> 404,
                             error |-> "Trade not found"]
                IN  /\ inflight' = [inflight EXCEPT ![r] = Done(@, resp)]
                    /\ response' = resp
                    /\ UNCHANGED <<trades, writes>>
           ELSE LET resp == [fn |-> "delete-trade", status |-> 200,
                             ok |-> TRUE, deletedTradeId |-> tradeId]
                IN  /\ trades' = NextBlobOfDelete(blob, tradeId).trades
                    /\ writes' = writes + 1
                    /\ inflight' = [inflight EXCEPT ![r] = Done(@, resp)]
                    /\ response' = resp
    /\ UNCHANGED <<basePicks, clock, nextId, call>>

InitConc ==
    /\ basePicks = BaseOwn
    /\ trades = <<>>
    /\ clock = 0
    /\ nextId = 0
    /\ response = NoResponse
    /\ call = NoCall
    /\ writes = 0
    /\ inflight = NoRequests

NextConc ==
    \/ \E r \in Requests, body \in ConcAddBodies : AddTradeRead(r, body)
    \/ \E r \in Requests : AddTradeStamp(r)
    \/ \E r \in Requests : AddTradeWrite(r)
    \/ \E r \in Requests, body \in ConcDeleteBodies : DeleteTradeRead(r, body)
    \/ \E r \in Requests : DeleteTradeWrite(r)

SpecConc == InitConc /\ [][NextConc]_vars

------------------------------------------------------------------------------
(* components/TradeForm.tsx: handleSubmit, with App.handleSubmitTrade as    *)
(* its onSubmit.  The form's state is the state get-state returned after    *)
(* the last change: the baseline and the stored log.                        *)

\* the value of a select left at "Select team"
Unselected == ""

\* lines 64-72: !row.fromTeamId || !row.toTeamId || ... for one row
RowIncomplete(row) ==
    \/ row.fromTeamId = Unselected
    \/ row.toTeamId = Unselected
    \/ row.year = 0
    \/ row.round = 0
    \/ row.originalOwnerId = Unselected

\* lines 97-101
RowPicks(rows) ==
    [i \in DOMAIN rows |->
        PickRef(rows[i].year, rows[i].round, rows[i].originalOwnerId)]

\* onError(message), followed by the return.  The call records the rows
\* submitted and the checks evaluated up to the return.
OnError(rows, checks, message) ==
    /\ call' = [fn |-> "handleSubmit", rows |-> rows, checks |-> checks,
                outcome |-> "onError", error |-> message]
    /\ UNCHANGED <<trades, clock, nextId, response, writes>>

\* lines 121-126 and App.tsx lines 63-91: the POST to add-trade
OnSubmit(rows, checks, trade) ==
    /\ AddTradeHandler(trade)
    /\ call' = [fn |-> "handleSubmit", rows |-> rows, checks |-> checks,
                outcome |-> "onSubmit", trade |-> trade]

\* mutant of HandleSubmit: the Stepien rule is checked before the duplicates
HandleSubmitStepienFirst(rows) ==
    /\ Len(trades) < MaxTrades
    /\ nextId < MaxIds
    /\ UNCHANGED <<basePicks, inflight>>
    /\ LET state == State(basePicks, trades)
           invalidRows == {i \in DOMAIN rows : RowIncomplete(rows[i])}
           fromTeamId == rows[1].fromTeamId
           toTeamId == rows[1].toTeamId
           allSameTeams ==
               \A i \in DOMAIN rows :
                   /\ rows[i].fromTeamId = fromTeamId
                   /\ rows[i].toTeamId = toTeamId
           picks == RowPicks(rows)
           duplicateValidation == validateNoDuplicatePicks(picks)
           stepienValidation == validateStepienRule(state, fromTeamId, picks)
       IN  IF invalidRows # {}
           THEN OnError(rows, <<"invalidRows">>,
                        "Please fill in all fields for all picks")
           ELSE IF ~allSameTeams
           THEN OnError(rows, <<"invalidRows", "allSameTeams">>,
                        "All picks in a trade must be from the same team to the same team")
           ELSE IF ~stepienValidation.ok
           THEN OnError(rows, <<"invalidRows", "allSameTeams",
                                "stepienValidation">>,
                        stepienValidation.error)
           ELSE IF ~duplicateValidation.ok
           THEN OnError(rows, <<"invalidRows", "allSameTeams",
                                "stepienValidation", "duplicateValidation">>,
                        duplicateValidation.error)
           ELSE OnSubmit(rows, <<"invalidRows", "allSameTeams",
                                 "stepienValidation", "duplicateValidation">>,
                         [fromTeamId |-> fromTeamId, toTeamId |-> toTeamId,
                          picks |-> picks])

\* lines 61-143 for rows that exist (the form starts with one row).  The
\* form is used while the log and the ids are below their bounds.  Each
\* check is computed after the return of the check before it (lines 67, 88,
\* 105, 113).  The errors of the validators are never empty, so the
\* fallback texts of lines 107 and 115 are not used.
HandleSubmit(rows) ==
    /\ Len(trades) < MaxTrades
    /\ nextId < MaxIds
    /\ UNCHANGED <<basePicks, inflight>>
    /\ LET state == State(basePicks, trades)
           invalidRows == {i \in DOMAIN rows : RowIncomplete(rows[i])}
           fromTeamId == rows[1].fromTeamId
           toTeamId == rows[1].toTeamId
           allSameTeams ==
               \A i \in DOMAIN rows :
                   /\ rows[i].fromTeamId = fromTeamId
                   /\ rows[i].toTeamId = toTeamId
           picks == RowPicks(rows)
           duplicateValidation == validateNoDuplicatePicks(picks)
           stepienValidation == validateStepienRule(state, fromTeamId, picks)
       IN  IF invalidRows # {}
           THEN OnError(rows, <<"invalidRows">>,
                        "Please fill in all fields for all picks")
           ELSE IF ~allSameTeams
           THEN OnError(rows, <<"invalidRows", "allSameTeams">>,
                        "All picks in a trade must be from the same team to the same team")
           ELSE IF ~duplicateValidation.ok
           THEN OnError(rows, <<"invalidRows", "allSameTeams",
                                "duplicateValidation">>,
                        duplicateValidation.error)
           ELSE IF ~stepienValidation.ok
           THEN OnError(rows, <<"invalidRows", "allSameTeams",
                                "duplicateValidation", "stepienValidation">>,
                        stepienValidation.error)
           ELSE OnSubmit(rows, <<"invalidRows", "allSameTeams",
                                 "duplicateValidation", "stepienValidation">>,
                         [fromTeamId |-> fromTeamId, toTeamId |-> toTeamId,
                          picks |-> picks])

\* the rows a user can build: the team selects offer the teams and the
\* unselected option
FormRows ==
    [fromTeamId : Teams \cup {Unselected}, toTeamId : Teams,
     year : {r.year : r \in ReqRefs}, round : {r.round : r \in ReqRefs},
     originalOwnerId : {r.originalOwnerId : r \in ReqRefs}]

\* lines 189-191: row.fromTeamId && row.round === 1 &&
\* isPickLockedByStepienRule(state, row.fromTeamId, row.year, row.round)
isLocked(state, row) ==
    /\ row.fromTeamId # Unselected
    /\ row.round = 1
    /\ isPickLockedByStepienRule(state, row.fromTeamId, row.year, row.round)

\* the rows the table of the form can show: any team, or none, in the
\* selects of the teams; any year and round on offer
ShownRows ==
    [fromTeamId : Teams \cup {Unselected}, toTeamId : Teams,
     year : Years, round : Rounds, originalOwnerId : Teams]

\* lines 188-310: one row of the form as rendered for the form's state
RenderRow(row) ==
    /\ call' = [fn |-> "TradeForm.row", row |-> row,
                isLocked |-> isLocked(State(basePicks, trades), row)]
    /\ UNCHANGED <<basePicks, trades, clock, nextId, response, writes, inflight>>

\* the form is followed from the state it was opened with: a submission that
\* ended in onError, and a rendering, change nothing but the record of the
\* call, so what can follow them can follow the state before them
FormOpen == call = NoCall \/ (call.fn = "handleSubmit"
                               /\ call.outcome = "onSubmit")

NextForm ==
    \/ \E rows \in SeqsOf(FormRows, 1, MaxRows) :
           FormOpen /\ HandleSubmit(rows)
    \/ \E row \in ShownRows : FormOpen /\ RenderRow(row)

SpecForm == InitSys /\ [][NextForm]_vars

------------------------------------------------------------------------------
(* Claims about the log the handlers and the form build *)

Owner(ts, k) == MapGet(rebuildOwnership(State(basePicks, ts)), k)

\* the last request was an add-trade that appended response.trade
Appended == response.status = 200 /\ HasField(response, "trade")

\* the log that request read
LogBefore == SelectSeq(trades, LAMBDA t : t.id # response.trade.id)

LaterThanAll(t, ts) == \A i \in DOMAIN ts : ts[i].createdAt < t.createdAt

StrictlyAscending(ts) ==
    \A i, j \in DOMAIN ts : i < j => ts[i].createdAt < ts[j].createdAt

\* C6: in a log of trades that each passed both checks against the state
\* before it and got a later createdAt, no team that owned its own round-1
\* picks of two consecutive years at baseline owns neither of them.
C6_NoConsecutiveFirstRoundersLost ==
    StrictlyAscending(trades) =>
        \A T \in Teams, Y \in Years :
            (/\ <<Y, 1, T>> \in BaseKeys(basePicks)
             /\ <<Y + 1, 1, T>> \in BaseKeys(basePicks)
             /\ BaselineOwner(basePicks, <<Y, 1, T>>) = T
             /\ BaselineOwner(basePicks, <<Y + 1, 1, T>>) = T)
            => ~(/\ Owner(trades, <<Y, 1, T>>) # T
                 /\ Owner(trades, <<Y + 1, 1, T>>) # T)

\* C7: every trade add-trade appends passed the duplicate check and the
\* Stepien check against the baseline and the log the request read.
C7_AppendedTradePassedBothChecks ==
    Appended =>
        /\ validateNoDuplicatePicks(response.trade.picks).ok
        /\ validateStepienRule(State(basePicks, LogBefore),
                               response.trade.fromTeamId,
                               response.trade.picks).ok

\* the form submitted a trade and add-trade appended it as the latest one
SubmittedLatest ==
    /\ call.fn = "handleSubmit"
    /\ call.outcome = "onSubmit"
    /\ Appended
    /\ LaterThanAll(response.trade, LogBefore)

\* C8 as claimed: every pick of the appended trade whose key is in the
\* baseline is owned by toTeamId afterwards.
C8_EveryPickMovesToReceiver ==
    SubmittedLatest =>
        \A i \in DOMAIN response.trade.picks :
            Key(response.trade.picks[i]) \in BaseKeys(basePicks)
            => Owner(trades, Key(response.trade.picks[i]))
                   = response.trade.toTeamId

\* C8 amended: every pick of the appended trade whose key is in the baseline
\* and which fromTeamId owned before the append is owned by toTeamId
\* afterwards; a pick another team owned keeps its owner.
C8_OwnedPicksMoveToReceiver ==
    SubmittedLatest =>
        \A i \in DOMAIN response.trade.picks :
            LET k == Key(response.trade.picks[i])
            IN  k \in BaseKeys(basePicks)
                => Owner(trades, k)
                     = IF Owner(LogBefore, k) = response.trade.fromTeamId
                       THEN response.trade.toTeamId
                       ELSE Owner(LogBefore, k)

\* C8 witness: the second trade of a log, of two baseline picks; fromTeamId
\* got one of them by the first trade and passes it on, and does not own
\* the other, which stays where it was.
C8_Witness ==
    /\ SubmittedLatest
    /\ Len(trades) = 2
    /\ Len(response.trade.picks) = 2
    /\ response.trade.fromTeamId # response.trade.toTeamId
    /\ \A i \in DOMAIN response.trade.picks :
           Key(response.trade.picks[i]) \in BaseKeys(basePicks)
    /\ \E i \in DOMAIN response.trade.picks :
           LET k == Key(response.trade.picks[i])
           IN  /\ BaselineOwner(basePicks, k) # response.trade.fromTeamId
               /\ Owner(LogBefore, k) = response.trade.fromTeamId
               /\ Owner(trades, k) = response.trade.toTeamId
    /\ \E i \in DOMAIN response.trade.picks :
           LET k == Key(response.trade.picks[i])
           IN  /\ Owner(LogBefore, k) # response.trade.fromTeamId
               /\ Owner(trades, k) = Owner(LogBefore, k)

\* C10: in every state the requests reach, every baseline pick is owned by
\* a team of state.teams.
C10_OwnerIsAlwaysATeam ==
    \A k \in BaseKeys(basePicks) : Owner(trades, k) \in Teams

------------------------------------------------------------------------------
(* Claims about the order of the log (SpecOwn) *)

\* the mapping rebuildOwnership returns for the log stored in the order f
RebuiltFrom(f) == rebuildOwnership(State(basePicks, Permuted(trades, f)))

\* f keeps trades of equal createdAt in their relative order
KeepsTies(ts, f) ==
    \A i, j \in DOMAIN ts :
        (i < j /\ ts[f[i]].createdAt = ts[f[j]].createdAt) => f[i] < f[j]

\* C11 as claimed: rebuildOwnership returns the same mapping for every
\* permutation of state.trades.
C11_EveryPermutationSameMapping ==
    Rebuilt =>
        \A f \in Permutations(DOMAIN trades) : RebuiltFrom(f) = call.result

\* C11 amended: rebuildOwnership returns the same mapping for every
\* permutation of state.trades that keeps trades of equal createdAt in their
\* relative order.
C11_TiePreservingPermutationSameMapping ==
    Rebuilt =>
        \A f \in Permutations(DOMAIN trades) :
            KeepsTies(trades, f) => RebuiltFrom(f) = call.result

\* C11 witness: two trades of different createdAt whose order decides the
\* owner of a pick (replayed in storage order the mapping would differ), and
\* the stored log is the one out of createdAt order.
C11_Witness ==
    /\ Rebuilt
    /\ Len(trades) = 2
    /\ trades[1].createdAt > trades[2].createdAt
    /\ ReplayTrades(SeedOwnership(basePicks, EmptyMap), trades) # call.result
    /\ RebuiltFrom(<<2, 1>>) = call.result

\* position in the stored log of a trade of a drawn log (its id)
StoredAt(t) == t.id

\* the stored log in ascending createdAt order, equal createdAt in log order
RefOrder(ts) == [n \in DOMAIN ts |-> RefNth(ts, n)]

\* C12: the order rebuildOwnership replays in holds every trade of the log
\* once, a trade of earlier createdAt before every trade of later createdAt
\* and trades of equal createdAt in their relative order in state.trades;
\* the mapping returned is the replay in that order.
C12_SortIsStableAndChronological ==
    Rebuilt =>
        LET sorted == SortedTrades(trades)
        IN  /\ Len(sorted) = Len(trades)
            /\ \A i \in DOMAIN trades : \E n \in DOMAIN sorted :
                   sorted[n] = trades[i]
            /\ \A m, n \in DOMAIN sorted :
                   m < n =>
                       \/ sorted[m].createdAt < sorted[n].createdAt
                       \/ /\ sorted[m].createdAt = sorted[n].createdAt
                          /\ StoredAt(sorted[m]) < StoredAt(sorted[n])
            /\ call.result
                   = ReplayTrades(SeedOwnership(basePicks, EmptyMap),
                                  RefOrder(trades))

\* C12 witness: two trades of equal createdAt whose order decides the owner
\* of a pick; the mapping returned is the one of the storage order.
C12_Witness ==
    /\ Rebuilt
    /\ Len(trades) = 2
    /\ trades[1].createdAt = trades[2].createdAt
    /\ RebuiltFrom(<<2, 1>>) # call.result
    /\ call.result = ReplayTrades(SeedOwnership(basePicks, EmptyMap), trades)

------------------------------------------------------------------------------
(* Claims about trades of picks the baseline does not hold (SpecOwn) *)

\* every pick reference of t names an identity key absent from the baseline
Irrelevant(t, bp) ==
    \A i \in DOMAIN t.picks : Key(t.picks[i]) \notin BaseKeys(bp)

AbsentRefs(bp) == {r \in PickRefs : Key(r) \notin BaseKeys(bp)}

\* trades of one absent pick to add to a log
AbsentTrades(bp) ==
    {Trade(0, at, from, to, <<r>>) :
        at \in 1 .. MaxLogTime, from \in Teams, to \in Teams \ {"A"},
        r \in AbsentRefs(bp)}

\* the log ts with t added behind its first n trades
InsertedAt(ts, n, t) == SubSeq(ts, 1, n) \o <<t>> \o SubSeq(ts, n + 1, Len(ts))

\* C13: the mapping returned has exactly the baseline's identity keys; it is
\* the mapping of the log without its trades of absent picks only, and
\* adding such a trade anywhere in the log yields the same mapping (no
\* error, no new entry, every owner unchanged).
C13_TradesOfAbsentPicksIgnored ==
    (Rebuilt /\ ~HasField(call, "first")) =>
        /\ DOMAIN call.result = BaseKeys(basePicks)
        /\ call.result
               = rebuildOwnership(
                     State(basePicks,
                           SelectSeq(trades,
                                     LAMBDA t : ~Irrelevant(t, basePicks))))
        /\ \A t \in AbsentTrades(basePicks), n \in 0 .. Len(trades) :
               rebuildOwnership(State(basePicks, InsertedAt(trades, n, t)))
                   = call.result

\* C13 witness: the stored log holds a trade of an absent pick only, stamped
\* before a trade that moves a baseline pick.
C13_Witness ==
    /\ Rebuilt
    /\ Len(trades) = 2
    /\ \E i, j \in DOMAIN trades :
           /\ Irrelevant(trades[i], basePicks)
           /\ trades[i].createdAt < trades[j].createdAt
           /\ trades[i].fromTeamId = trades[j].fromTeamId
           /\ \E k \in BaseKeys(basePicks) :
                  /\ TradeNames(trades[j], k)
                  /\ call.result[k] = trades[j].toTeamId
                  /\ call.result[k] # BaselineOwner(basePicks, k)

------------------------------------------------------------------------------
(* Claims about the scope and the two checks of validateStepienRule          *)
(* (SpecVal)                                                                 *)

FirstCall(fn) == Called(fn) /\ ~HasField(call, "first")

\* the candidate picks the rule applies to, in list order
ScopeOnly(picks, T) ==
    SelectSeq(picks, LAMBDA p : p.round = 1 /\ p.originalOwnerId = T)

OutOfScopeRefs(T) ==
    {r \in CandRefs : ~(r.round = 1 /\ r.originalOwnerId = T)}

\* C14: a candidate list with no round-1 pick of fromTeamId is accepted in
\* every state; the result for a list is the result for its round-1 picks
\* of fromTeamId alone, and adding a pick outside that scope anywhere in the
\* list leaves the result as it was.
C14_OnlyOwnFirstRoundPicksCount ==
    FirstCall("validateStepienRule") =>
        LET state == State(basePicks, trades)
            T == call.fromTeamId
        IN  /\ ScopePositions(call.picks, T) = {} => call.result = [ok |-> TRUE]
            /\ call.result
                   = validateStepienRule(state, T, ScopeOnly(call.picks, T))
            /\ \A r \in OutOfScopeRefs(T), n \in 0 .. Len(call.picks) :
                   validateStepienRule(state, T, InsertedAt(call.picks, n, r))
                       = call.result

\* C14 witness: fromTeamId has lost its round-1 pick of a year and trades
\* its round-2 pick of the next year together with a round-1 pick of
\* another team's of that next year; accepted.
C14_Witness ==
    /\ FirstCall("validateStepienRule")
    /\ call.result.ok = TRUE
    /\ \E i, j \in DOMAIN call.picks :
           /\ call.picks[i].round = 2
           /\ call.picks[i].originalOwnerId = call.fromTeamId
           /\ RefLocked(State(basePicks, trades), call.fromTeamId,
                        call.picks[i].year)
           /\ call.picks[j].round = 1
           /\ call.picks[j].originalOwnerId # call.fromTeamId
           /\ call.picks[j].year = call.picks[i].year

\* C15: validateStepienRule rejects exactly when a candidate pick is locked
\* or two candidate round-1 picks of fromTeamId are one year apart, and the
\* one rejection names every locked pick and every such pair, whatever the
\* other check found.
C15_BothChecksReported ==
    FirstCall("validateStepienRule") =>
        LET state == State(basePicks, trades)
            T == call.fromTeamId
            picks == call.picks
        IN  /\ call.result.ok = FALSE
                   <=> \/ SomeLocked(state, T, picks)
                       \/ ConsecutivePairs(picks, T) # {}
            /\ \A i \in ScopePositions(picks, T) :
                   RefLocked(state, T, picks[i].year)
                   => InSeq([kind |-> "locked", year |-> picks[i].year,
                             round |-> 1],
                            call.result.error.violations)
            /\ \A pair \in ConsecutivePairs(picks, T) :
                   InSeq([kind |-> "consecutive", currentYear |-> pair[1],
                          nextYear |-> pair[2]],
                         call.result.error.violations)

\* C15 witness: the candidate holds a locked pick and two round-1 picks of
\* fromTeamId one year apart, and the rejection holds a violation of each
\* kind.
C15_Witness ==
    /\ FirstCall("validateStepienRule")
    /\ SomeLocked(State(basePicks, trades), call.fromTeamId, call.picks)
    /\ ConsecutivePairs(call.picks, call.fromTeamId) # {}
    /\ call.result.ok = FALSE
    /\ \E m, n \in DOMAIN call.result.error.violations :
           /\ call.result.error.violations[m].kind = "locked"
           /\ call.result.error.violations[n].kind = "consecutive"

------------------------------------------------------------------------------
(* Claims about the requests the handlers receive (Spec) *)

\* the last request was received by the handler fn
Requested(fn) == call.fn = fn

AtLeastOnePickError == [kind |-> "Trade must contain at least one pick"]

\* C16: validateNoDuplicatePicks rejects the empty list with the 'at least
\* one pick' error, and add-trade answers a request with an empty picks
\* list and a request without a picks field alike: status 400 with that
\* error.
C16_EmptyAndMissingPicksRejected ==
    /\ validateNoDuplicatePicks(<<>>)
           = [ok |-> FALSE, error |-> AtLeastOnePickError]
    /\ Requested("add-trade") =>
           ((~HasField(call.body, "picks") \/ call.body.picks = <<>>)
            => response = [fn |-> "add-trade", status |-> 400,
                           error |-> AtLeastOnePickError])

\* C16 witness: a request without a picks field, received when the log
\* holds a trade, was answered with status 400.
C16_Witness ==
    /\ Requested("add-trade")
    /\ ~HasField(call.body, "picks")
    /\ response.status = 400
    /\ trades # <<>>

------------------------------------------------------------------------------
(* Claims about the error of validateNoDuplicatePicks (SpecVal) *)

\* the identity keys that occur more than once in the list
RepeatedKeys(picks) ==
    {Key(picks[i]) : i \in {j \in DOMAIN picks :
                               \E m \in DOMAIN picks :
                                   m # j /\ Key(picks[m]) = Key(picks[j])}}

\* C17: for a list in which identity keys occur more than once, the result
\* is the duplicates rejection and its error names year, round and original
\* owner of every such key.
C17_EveryRepeatedKeyNamed ==
    (Called("validateNoDuplicatePicks") /\ RepeatedKeys(call.picks) # {}) =>
        /\ call.result.ok = FALSE
        /\ call.result.error.kind = "Duplicate picks found in trade"
        /\ \A k \in RepeatedKeys(call.picks) :
               InSeq(<<k[1], k[2], k[3]>>, call.result.error.duplicates)

\* C17 witness: two identity keys each occur twice, interleaved, and the
\* error names both.
C17_Witness ==
    /\ Called("validateNoDuplicatePicks")
    /\ Len(call.picks) = 4
    /\ SamePick(call.picks[1], call.picks[3])
    /\ SamePick(call.picks[2], call.picks[4])
    /\ ~SamePick(call.picks[1], call.picks[2])
    /\ call.result.ok = FALSE
    /\ Len(call.result.error.duplicates) = 2
    /\ call.result.error.duplicates[1] # call.result.error.duplicates[2]

------------------------------------------------------------------------------
(* Claims about the state a library function leaves (SpecVal) *)

StateReaders ==
    {"rebuildOwnership", "isPickLockedByStepienRule", "validateStepienRule"}

TradeIds(ts) == {ts[i].id : i \in DOMAIN ts}

\* the log ts without its i-th trade
WithoutNth(ts, i) == SubSeq(ts, 1, i - 1) \o SubSeq(ts, i + 1, Len(ts))

C20_DeleteOfAbsentIdWritesNothing ==
    [][call'.fn = "delete-trade" =>
           /\ ~HasField(call'.body, "tradeId") =>
                  /\ response' = [fn |-> "delete-trade", status |-> 400,
                                  error |-> "tradeId is required"]
                  /\ writes' = writes
                  /\ trades' = trades
           /\ (HasField(call'.body, "tradeId")
               /\ call'.body.tradeId \notin TradeIds(trades)) =>
                  /\ response' = [fn |-> "delete-trade", status |-> 404,
                                  error |-> "Trade not found"]
                  /\ writes' = writes
                  /\ trades' = trades]_vars

\* C20 witness: a request for the id of a trade deleted before, received
\* when the log holds another trade, was answered with status 404.
C20_Witness ==
    /\ Requested("delete-trade")
    /\ HasField(call.body, "tradeId")
    /\ call.body.tradeId <= nextId
    /\ call.body.tradeId \notin TradeIds(trades)
    /\ trades # <<>>
    /\ response.status = 404
    /\ writes = 3

\* C21: whenever the picks of an add-trade request are rejected by
\* validateNoDuplicatePicks (picks missing, empty, or naming one pick twice),
\* add-trade answers with status 400 and the validator's error as the body's
\* error, calls store.set not once, and the stored log is what it was
\* before the request.
C21_RejectedPicksAnswered400WithoutWrite ==
    [][call'.fn = "add-trade" =>
           LET picks == IF HasField(call'.body, "picks")
                        THEN call'.body.picks ELSE <<>>
               rejected == \/ ~HasField(call'.body, "picks")
                           \/ picks = <<>>
                           \/ RepeatedKeys(picks) # {}
           IN  rejected =>
                   /\ ~validateNoDuplicatePicks(picks).ok
                   /\ response' = [fn |-> "add-trade", status |-> 400,
                                   error |->
                                       validateNoDuplicatePicks(picks).error]
                   /\ writes' = writes
                   /\ trades' = trades]_vars

\* C21 witness: a request naming one pick twice, received when the log holds
\* a trade, was answered with status 400 and the log still holds that trade.
C21_Witness ==
    /\ Requested("add-trade")
    /\ HasField(call.body, "picks")
    /\ RepeatedKeys(call.body.picks) # {}
    /\ response.status = 400
    /\ response.error.kind = "Duplicate picks found in trade"
    /\ Len(trades) = 1
    /\ writes = 1

\* C22: no request changes the baseline.  Every get-state response carries
\* the seed dataset's teams and basePicks (current owners as seeded, whatever
\* the stored log says) and the stored trades; while nothing was stored the
\* trades returned are the empty list.  add-trade and delete-trade change of
\* the stored blob nothing but its trades.
C22_BaselineImmutable ==
    [][/\ basePicks' = basePicks
       /\ call'.fn = "get-state" =>
              /\ response'.status = 200
              /\ response'.state.teams = Teams
              /\ response'.state.basePicks = basePicks
              /\ response'.state.basePicks \in Baselines
              /\ response'.state.trades = trades
              /\ DOMAIN response'.state = {"teams", "basePicks", "trades"}
              /\ writes = 0 => response'.state.trades = <<>>
              /\ UNCHANGED <<trades, writes>>]_vars

\* C22 witness: get-state answered after a trade that moved a baseline pick
\* to the other team was stored; the pick's current owner in the response is
\* still the seed's.
C22_Witness ==
    /\ Requested("get-state")
    /\ Len(trades) = 1
    /\ response.state.trades = trades
    /\ \E i \in DOMAIN basePicks :
           /\ Owner(trades, Key(basePicks[i])) # basePicks[i].currentOwnerId
           /\ response.state.basePicks[i] = basePicks[i]

\* the error string of a rejection is not empty: its fixed text is there,
\* and so is whatever the text announces (the duplicates, the violations)
NonEmptyError(error) ==
    /\ error.kind \in {"Trade must contain at least one pick",
                        "Duplicate picks found in trade",
                        "Stepien rule violation"}
    /\ HasField(error, "duplicates") => error.duplicates # <<>>
    /\ HasField(error, "violations") => error.violations # <<>>

\* C23: every call of validateNoDuplicatePicks and of validateStepienRule
\* returns a result, and the result is either { ok: true } without an error
\* field or { ok: false, error } with a non-empty error.
C23_ViolationsAreReturnValues ==
    (Called("validateNoDuplicatePicks") \/ Called("validateStepienRule")) =>
        /\ HasField(call, "result")
        /\ \/ /\ call.result.ok = TRUE
              /\ DOMAIN call.result = {"ok"}
           \/ /\ call.result.ok = FALSE
              /\ DOMAIN call.result = {"ok", "error"}
              /\ NonEmptyError(call.result.error)

\* C23 witness: validateStepienRule returned a rejection for a pick list
\* that validateNoDuplicatePicks lets pass.
C23_Witness ==
    /\ Called("validateStepienRule")
    /\ call.result.ok = FALSE
    /\ call.result.error.violations # <<>>
    /\ validateNoDuplicatePicks(call.picks) = Ok
    /\ trades # <<>>

\* the trades a request of fromTeamId for the picks may be appended as: any
\* recipient, a createdAt not before any createdAt of the log
LatestTrades(ts, fromTeamId, picks) ==
    {Trade(Len(ts) + 1, at, fromTeamId, to, picks) :
        at \in {n \in 0 .. MaxValLog + 1 :
                   \A i \in DOMAIN ts : ts[i].createdAt <= n},
        to \in Teams \cup {Ghost}}

\* C25: when validateStepienRule accepts a trade of team T that holds T's
\* own round-1 pick of year Y and the baseline holds T's own round-1 pick of
\* year Y-1, the derived owner of that year Y-1 pick is T in the state the
\* trade was validated against and in the state with the trade appended as
\* the latest trade.
C25_AcceptedTradeKeepsPreviousYearPick ==
    (Called("validateStepienRule") /\ call.result.ok) =>
        \A i \in ScopePositions(call.picks, call.fromTeamId) :
            LET T == call.fromTeamId
                k == <<call.picks[i].year - 1, 1, T>>
            IN  k \in BaseKeys(basePicks) =>
                    /\ RefOwner(State(basePicks, trades), k) = T
                    /\ \A t \in LatestTrades(trades, T, call.picks) :
                           RefOwner(State(basePicks, Append(trades, t)), k) = T

\* C25 witness: an accepted trade of A holds A's own round-1 picks of the
\* first and the third year; the baseline holds A's pick of the year between,
\* and the log validated against has moved another pick of A.
C25_Witness ==
    /\ Called("validateStepienRule")
    /\ call.result.ok
    /\ call.fromTeamId = "A"
    /\ {call.picks[i].year : i \in ScopePositions(call.picks, "A")}
           = {FirstYear, FirstYear + 2}
    /\ <<FirstYear + 1, 1, "A">> \in BaseKeys(basePicks)
    /\ \E k \in BaseKeys(basePicks) :
           /\ k[3] = "A"
           /\ RefOwner(State(basePicks, trades), k) # "A"
           /\ BaselineOwner(basePicks, k) = "A"

Rendered == call.fn = "OwnershipTable"

\* C27: the mapping the ownership table renders from equals the mapping
\* tradeValidation.ts's rebuildOwnership returns for the same state, so the
\* owner a cell shows and the lock shown next to it come from one ownership:
\* a cell is locked exactly when the owner the table shows for the team's
\* previous-year round-1 pick is another team.
C27_TableAndLibraryOwnershipAgree ==
    Rendered =>
        /\ call.ownership = rebuildOwnership(State(basePicks, trades))
        /\ \A i \in DOMAIN basePicks :
               LET pick == basePicks[i]
                   previous == <<pick.year - 1, 1, pick.originalOwnerId>>
               IN  /\ call.cells[i].currentOwner = call.ownership[Key(pick)]
                   /\ call.cells[i].isLocked <=>
                          /\ pick.round = 1
                          /\ previous \in DOMAIN call.ownership
                          /\ call.ownership[previous] # pick.originalOwnerId

\* C27 witness: the table was rendered for a log stored out of createdAt
\* order, one trade of which names a pick its fromTeamId does not own, and
\* a cell is shown locked.
C27_Witness ==
    /\ Rendered
    /\ Len(trades) = 2
    /\ trades[1].createdAt > trades[2].createdAt
    /\ \E i \in DOMAIN trades : \E j \in DOMAIN trades[i].picks :
           LET k == Key(trades[i].picks[j])
           IN  /\ k \in BaseKeys(basePicks)
               /\ \A n \in 0 .. Len(trades) :
                      RefOwnerAfter(State(basePicks, trades), k, n)
                          # trades[i].fromTeamId
    /\ \E i \in DOMAIN basePicks : call.cells[i].isLocked

\* the lock status of every team's pick of every year and round
Locks(ts) ==
    [teamId \in Teams, year \in FirstYear .. (FirstYear + NumYears),
     round \in Rounds |->
        isPickLockedByStepienRule(State(basePicks, ts), teamId, year, round)]

\* C28: a delete-trade request for the id the add-trade request right before
\* it returned succeeds and leaves the stored list of trades, the derived
\* owner of every pick and the lock status of every pick as they were when
\* that add-trade request read the store.
C28_AddThenDeleteRestores ==
    [][(/\ call.fn = "add-trade"
        /\ response.status = 200
        /\ call'.fn = "delete-trade"
        /\ HasField(call'.body, "tradeId")
        /\ call'.body.tradeId = response.trade.id) =>
           /\ response' = [fn |-> "delete-trade", status |-> 200,
                           ok |-> TRUE, deletedTradeId |-> response.trade.id]
           /\ trades' = call.read
           /\ rebuildOwnership(State(basePicks, trades'))
                  = rebuildOwnership(State(basePicks, call.read))
           /\ Locks(trades') = Locks(call.read)]_vars

\* C28 witness: the second trade of the log was deleted by the request after
\* the one that appended it; the log holds the first trade alone, which has
\* moved a pick.
C28_Witness ==
    /\ Requested("delete-trade")
    /\ response.status = 200
    /\ response.deletedTradeId = 2
    /\ Len(trades) = 1
    /\ trades[1].id = 1
    /\ writes = 3
    /\ \E k \in BaseKeys(basePicks) : Owner(trades, k) = BaselineOwner(basePicks, k)
    /\ \E k \in BaseKeys(basePicks) : Owner(trades, k) # BaselineOwner(basePicks, k)

\* the checks of handleSubmit in their order
SubmitChecks ==
    <<"invalidRows", "allSameTeams", "duplicateValidation",
      "stepienValidation">>

\* the picks the rows name
PicksOfRows(rows) ==
    [i \in DOMAIN rows |->
        [year |-> rows[i].year, round |-> rows[i].round,
         originalOwnerId |-> rows[i].originalOwnerId]]

\* whether rows pass check n against the state
PassesCheck(state, rows, n) ==
    CASE n = 1 -> \A i \in DOMAIN rows :
                      /\ rows[i].fromTeamId \in Teams
                      /\ rows[i].toTeamId \in Teams
                      /\ rows[i].year \in Years
                      /\ rows[i].round \in Rounds
                      /\ rows[i].originalOwnerId \in Teams
      [] n = 2 -> \A i, j \in DOMAIN rows :
                      /\ rows[i].fromTeamId = rows[j].fromTeamId
                      /\ rows[i].toTeamId = rows[j].toTeamId
      [] n = 3 -> RepeatedKeys(PicksOfRows(rows)) = {}
      [] n = 4 -> /\ ~SomeLocked(state, rows[1].fromTeamId, PicksOfRows(rows))
                  /\ ConsecutivePairs(PicksOfRows(rows), rows[1].fromTeamId)
                         = {}

\* the first check the rows fail, 5 when they pass all four
FirstFailure(state, rows) ==
    CHOOSE n \in 1 .. 5 :
        /\ \A k \in 1 .. (n - 1) : PassesCheck(state, rows, k)
        /\ n < 5 => ~PassesCheck(state, rows, n)

\* what onError is handed when check n fails
ErrorOfCheck(state, rows, n) ==
    CASE n = 1 -> "Please fill in all fields for all picks"
      [] n = 2 -> "All picks in a trade must be from the same team to the same team"
      [] n = 3 -> validateNoDuplicatePicks(PicksOfRows(rows)).error
      [] n = 4 -> validateStepienRule(state, rows[1].fromTeamId,
                                      PicksOfRows(rows)).error

\* C29: handleSubmit evaluates its checks in the order complete rows, same
\* teams, no duplicate picks, Stepien rule against the form's state.  At the
\* first check that fails it hands that check's error to onError, has
\* evaluated no later check and does not call onSubmit (nothing is posted:
\* log, response and store.set count stay); when all four pass it calls
\* onSubmit with the trade of the rows.
C29_FirstFailingCheckReported ==
    [][call'.fn = "handleSubmit" =>
           LET rows == call'.rows
               state == State(basePicks, trades)
               n == FirstFailure(state, rows)
           IN  IF n < 5
               THEN /\ call'.checks = SubSeq(SubmitChecks, 1, n)
                    /\ call'.outcome = "onError"
                    /\ call'.error = ErrorOfCheck(state, rows, n)
                    /\ ~HasField(call', "trade")
                    /\ UNCHANGED <<trades, response, writes>>
               ELSE /\ call'.checks = SubmitChecks
                    /\ call'.outcome = "onSubmit"
                    /\ ~HasField(call', "error")
                    /\ call'.trade = [fromTeamId |-> rows[1].fromTeamId,
                                      toTeamId |-> rows[1].toTeamId,
                                      picks |-> PicksOfRows(rows)]
                    /\ writes' = writes + 1]_vars

\* C29 witness: two rows naming the same locked pick, which fail the
\* duplicate check and would fail the Stepien check, were reported as
\* duplicates.
C29_Witness ==
    /\ call.fn = "handleSubmit"
    /\ Len(call.rows) = 2
    /\ call.outcome = "onError"
    /\ call.checks = SubSeq(SubmitChecks, 1, 3)
    /\ call.error.kind = "Duplicate picks found in trade"
    /\ ~PassesCheck(State(basePicks, trades), call.rows, 4)
    /\ trades # <<>>

\* the row's pick alone, as the picks of a trade
PickOfRow(row) ==
    <<[year |-> row.year, round |-> row.round,
       originalOwnerId |-> row.originalOwnerId]>>

\* C30: the LOCKED indicator of a row of the form is shown exactly when
\* validateStepienRule rejects the trade from the row's fromTeamId that
\* holds the row's pick alone.
C30_IndicatorAgreesWithValidator ==
    call.fn = "TradeForm.row" =>
        (call.isLocked
            <=> ~validateStepienRule(State(basePicks, trades),
                                     call.row.fromTeamId,
                                     PickOfRow(call.row)).ok)

\* the requests that were answered ok:true by add-trade / by delete-trade
AckedAdds ==
    {r \in Requests : /\ inflight[r].pc = "done"
                      /\ inflight[r].fn = "add-trade"
                      /\ inflight[r].response.status = 200}

AckedDeletes ==
    {r \in Requests : /\ inflight[r].pc = "done"
                      /\ inflight[r].fn = "delete-trade"
                      /\ inflight[r].response.status = 200}

DeletedIds == {inflight[r].response.deletedTradeId : r \in AckedDeletes}

\* C24: under every interleaving of the reads and writes of concurrent
\* add-trade and delete-trade requests, a trade add-trade answered ok:true
\* for is in the stored log unless a delete-trade for its id was answered
\* ok, and a trade whose delete-trade was answered ok is not in the stored
\* log.
C24_AcknowledgedChangesAreKept ==
    /\ \A r \in AckedAdds :
           inflight[r].response.trade.id \notin DeletedIds
           => inflight[r].response.trade \in {trades[i] : i \in DOMAIN trades}
    /\ \A id \in DeletedIds : id \notin TradeIds(trades)

\* the stored log is in non-decreasing createdAt order
NonDecreasing(ts) ==
    \A i, j \in DOMAIN ts : i < j => ts[i].createdAt <= ts[j].createdAt

\* C26: the clock never running backwards, the stored log is in
\* non-decreasing createdAt order after every interleaving of add-trade and
\* delete-trade requests, and the sort of rebuildOwnership leaves a stored
\* log in its storage order.
C26_StoredLogIsChronological ==
    /\ NonDecreasing(trades)
    /\ SortedTrades(trades) = trades

\* C26 witness: the log holds two trades of different createdAt and not the
\* acknowledged trade of a request that was stamped before the second of
\* them: its write was overwritten by a request that had read before it.
C26_Witness ==
    /\ Len(trades) = 2
    /\ trades[1].createdAt < trades[2].createdAt
    /\ \E r \in AckedAdds :
           /\ inflight[r].response.trade.id \notin TradeIds(trades)
           /\ inflight[r].response.trade.id < trades[2].id
           /\ inflight[r].response.trade.id > trades[1].id

====
